---------------------------- MODULE Spec2Model ----------------------------
(***************************************************************************)
(* Model of the WebGL-plot example programs:                               *)
(*   - the WebglLine / WebGLPlot classes bundled in                        *)
(*     vanilla/dist/microphone.js,                                         *)
(*   - the microphone demo (vanilla/dist/microphone.js),                   *)
(*   - the random-walk demo (src/script.js),                               *)
(*   - the off-screen worker demo (offScreen/rollup/src/offScreen-worker). *)
(*                                                                         *)
(* Float32 samples are modelled as integers (the demos only copy, compare  *)
(* and step them); NaN is the value a Float32Array stores for undefined.   *)
(* A Float32Array of length L is a sequence of length L; the JavaScript    *)
(* offset o is position o + 1 of the sequence.                             *)
(***************************************************************************)
EXTENDS Integers, Sequences, FiniteSets, TLC

VARIABLES
    mode,       \* which program runs: "line", "plot", "mic", "walk", "worker"
    heap,       \* the WebglLine objects, by object identity
    nextId,     \* identity of the next object constructed
    gl,         \* the WebGL context of each canvas
    wglp,       \* the WebGLPlot object each running program refers to
    g,          \* the program's other globals
    sched,      \* what the host has pending: animation frames, timers, promises
    op          \* the last operation run, its arguments and what it did

vars == <<mode, heap, nextId, gl, wglp, g, sched, op>>

---------------------------------------------------------------------------
(* Bounds of the model *)

\* largest numPoints of a line built by the library's client
MaxPoints == 3
\* the sample values a client or an analyser supplies: two distinct samples
Values == {0, 1}

\* what a Float32Array element holds after undefined was stored in it
NaN == 0 - 1000

\* the JavaScript value undefined, and a defined number
Undefined == [def |-> FALSE, v |-> 0]
Num(v) == [def |-> TRUE, v |-> v]

\* ToNumber of a value stored into a Float32Array
ToFloat(r) == IF r.def THEN r.v ELSE NaN

---------------------------------------------------------------------------
(* Float32Array element access: an out-of-range read gives undefined, an   *)
(* out-of-range write is ignored.                                          *)

TypedGet(xy, off) ==
    IF off >= 0 /\ off < Len(xy) THEN Num(xy[off + 1]) ELSE Undefined

TypedSet(xy, off, r) ==
    IF off >= 0 /\ off < Len(xy)
    THEN [xy EXCEPT ![off + 1] = ToFloat(r)]
    ELSE xy

Zeros(len) == [i \in 1 .. len |-> 0]

---------------------------------------------------------------------------
(* class WebglLine *)

\* constructor(c, numPoints) on top of WebglBaseLine's constructor
WebglLine(numPoints) ==
    [ numPoints      |-> numPoints,
      webglNumPoints |-> numPoints,
      xy             |-> Zeros(2 * numPoints),
      visible        |-> TRUE,
      loop           |-> FALSE,
      vbuffer        |-> 0 ]

setX(l, index, x) == [l EXCEPT !.xy = TypedSet(l.xy, index * 2, x)]

setY(l, index, y) == [l EXCEPT !.xy = TypedSet(l.xy, index * 2 + 1, y)]

getX(l, index) == TypedGet(l.xy, index * 2)

getY(l, index) == TypedGet(l.xy, index * 2 + 1)

\* for (let i = 0; i < this.numPoints; i++) this.setX(i, start + stepSize * i)
RECURSIVE lineSpaceXFrom(_, _, _, _)
lineSpaceXFrom(l, i, start, stepSize) ==
    IF i < l.numPoints
    THEN lineSpaceXFrom(setX(l, i, Num(start + stepSize * i)), i + 1, start, stepSize)
    ELSE l

lineSpaceX(l, start, stepSize) == lineSpaceXFrom(l, 0, start, stepSize)

\* for (let i = 0; i < this.numPoints; i++) this.setY(i, c)
RECURSIVE constYFrom(_, _, _)
constYFrom(l, i, c) ==
    IF i < l.numPoints
    THEN constYFrom(setY(l, i, Num(c)), i + 1, c)
    ELSE l

constY(l, c) == constYFrom(l, 0, c)

\* data[i] of a JavaScript array
Elem(data, i) == IF i >= 0 /\ i < Len(data) THEN Num(data[i + 1]) ELSE Undefined

\* first loop of shiftAdd: for (i = 0; i < numPoints - shiftSize; i++)
RECURSIVE shiftAddShift(_, _, _)
shiftAddShift(l, i, shiftSize) ==
    IF i < l.numPoints - shiftSize
    THEN shiftAddShift(setY(l, i, getY(l, i + shiftSize)), i + 1, shiftSize)
    ELSE l

\* second loop of shiftAdd: for (i = 0; i < shiftSize; i++)
RECURSIVE shiftAddAppend(_, _, _)
shiftAddAppend(l, i, data) ==
    IF i < Len(data)
    THEN shiftAddAppend(setY(l, i + l.numPoints - Len(data), Elem(data, i)), i + 1, data)
    ELSE l

shiftAddNoShift(l, data) == shiftAddAppend(l, 0, data)

shiftAdd(l, data) == shiftAddAppend(shiftAddShift(l, 0, Len(data)), 0, data)

---------------------------------------------------------------------------
(* The WebGL context of a canvas, as far as WebGLPlot uses it.             *)
(*   live    the buffer objects created and not deleted                    *)
(*   bound   the buffer bound to ARRAY_BUFFER (0: none)                    *)
(*   attrib  the buffer the "coordinates" attribute reads (0: none)        *)
(*   store   the data store of each buffer                                 *)
(*   view    the viewport rectangle                                        *)
(*   draws   the drawArrays calls made since the record was last taken     *)
(*   calls   the WebGLPlot.update() calls made since then                  *)

NewContext ==
    [ nextBuf |-> 1, live |-> {}, bound |-> 0, attrib |-> 0,
      store |-> <<>>, view |-> <<0, 0, 0, 0>>, draws |-> <<>>, calls |-> 0 ]

createBuffer(ctx) ==
    [ctx EXCEPT !.nextBuf = @ + 1,
                !.live = @ \cup {ctx.nextBuf},
                !.store = (ctx.nextBuf :> <<>>) @@ @]

bindBuffer(ctx, b) == [ctx EXCEPT !.bound = b]

\* bufferData(ARRAY_BUFFER, data, STREAM_DRAW): INVALID_OPERATION when no
\* buffer is bound
bufferData(ctx, data) ==
    IF ctx.bound = 0 THEN ctx ELSE [ctx EXCEPT !.store[ctx.bound] = data]

vertexAttribPointer(ctx) == [ctx EXCEPT !.attrib = ctx.bound]

LINE_STRIP == "LINE_STRIP"
LINE_LOOP == "LINE_LOOP"

\* drawArrays(mode, 0, count): draws the attribute's buffer as it is now
drawArrays(ctx, drawMode, count) ==
    [ctx EXCEPT !.draws = Append(@,
        [ mode  |-> drawMode,
          count |-> count,
          data  |-> IF ctx.attrib = 0 THEN <<>> ELSE ctx.store[ctx.attrib] ])]

glViewport(ctx, a, b, c, d) == [ctx EXCEPT !.view = <<a, b, c, d>>]

---------------------------------------------------------------------------
(* class WebGLPlot.  A method that changes both the context and the lines  *)
(* returns [ctx, heap, plot].                                              *)

\* constructor(canvas): sets the viewport to the canvas and starts with no lines
WebGLPlot(ctx, canvas, width, height) ==
    [ ctx  |-> glViewport(ctx, 0, 0, width, height),
      plot |-> [lines |-> <<>>, canvas |-> canvas] ]

\* the body of update()'s forEach for one line
updateLineNoUpload(ctx, l) ==
    IF l.visible
    THEN drawArrays(ctx, IF l.loop THEN LINE_LOOP ELSE LINE_STRIP, l.webglNumPoints)
    ELSE ctx

updateLine(ctx, l) ==
    IF l.visible
    THEN drawArrays(bufferData(ctx, l.xy),
                    IF l.loop THEN LINE_LOOP ELSE LINE_STRIP, l.webglNumPoints)
    ELSE ctx

RECURSIVE updateFrom(_, _, _, _)
updateFrom(ctx, hp, lines, i) ==
    IF i <= Len(lines)
    THEN updateFrom(updateLine(ctx, hp[lines[i]]), hp, lines, i + 1)
    ELSE ctx

updateTwice(ctx, hp, plot) ==
    updateFrom(updateFrom([ctx EXCEPT !.calls = @ + 2], hp, plot.lines, 1),
               hp, plot.lines, 1)

\* update()
update(ctx, hp, plot) == updateFrom([ctx EXCEPT !.calls = @ + 1], hp, plot.lines, 1)

addLine(ctx, hp, plot, id) ==
    LET c1 == createBuffer(ctx)
        b  == ctx.nextBuf
        c2 == bindBuffer(c1, b)
        c3 == bufferData(c2, hp[id].xy)
        c4 == vertexAttribPointer(bindBuffer(c3, b))
    IN  [ ctx  |-> c4,
          heap |-> [hp EXCEPT ![id].vbuffer = b],
          plot |-> [plot EXCEPT !.lines = Append(@, id)] ]

\* this.lines.pop(): nothing happens on an empty array
popLine(plot) ==
    [plot EXCEPT !.lines = IF Len(@) = 0 THEN @ ELSE SubSeq(@, 1, Len(@) - 1)]

removeAllLinesKeepsFirst(plot) ==
    [plot EXCEPT !.lines = IF Len(@) = 0 THEN @ ELSE <<Head(@)>>]

removeAllLines(plot) == [plot EXCEPT !.lines = <<>>]

viewportResetsLines(ctx, hp, plot, a, b, c, d) ==
    [ ctx |-> glViewport(ctx, a, b, c, d), heap |-> hp,
      plot |-> [plot EXCEPT !.lines = <<>>] ]

\* viewport(a, b, c, d); the heap and the plot are returned as they came
viewport(ctx, hp, plot, a, b, c, d) ==
    [ ctx |-> glViewport(ctx, a, b, c, d), heap |-> hp, plot |-> plot ]

\* the context with the record of its draws and update() calls taken out
Taken(ctx) == [ctx EXCEPT !.draws = <<>>, !.calls = 0]

---------------------------------------------------------------------------
(* The host's animation frames: raf[k] callbacks of program instance k are *)
(* pending.                                                                *)

\* the host takes one pending callback to run it
frameFired(raf, k) == [raf EXCEPT ![k] = @ - 1]

\* window.requestAnimationFrame(callback)
requestAnimationFrame(raf, k) == [raf EXCEPT ![k] = @ + 1]

---------------------------------------------------------------------------
(* The record of the last operation *)

OpRec(name) ==
    [ name    |-> name,        \* the handler or method that ran
      inst    |-> 1,           \* the program instance it ran in
      line    |-> 0,           \* the line it was called on
      index   |-> 0,           \* its index argument
      val     |-> 0,           \* its value argument
      data    |-> <<>>,        \* its array argument
      ret     |-> Undefined,   \* what it returned
      outcome |-> "returned",  \* "returned", or the name of the error thrown
      acc     |-> {},          \* the <<line, index>> pairs given to point accessors
      updates |-> 0,           \* calls of WebGLPlot.update() it made
      plots   |-> 0,           \* calls of the data producer it made
      draws   |-> <<>>,        \* the drawArrays calls it made, in order
      lines   |-> <<>> ]       \* the plot's lines when it started

NoOp == OpRec("none")

Range(f) == { f[i] : i \in DOMAIN f }

\* sequences over S of length 0..n
SeqsUpTo(S, n) == UNION { [1 .. k -> S] : k \in 0 .. n }

\* indices a client may pass, in range or not
Indices == -1 .. MaxPoints

NoHeap == <<>>

---------------------------------------------------------------------------
(* Program "line": a client of one WebglLine calling its methods *)

InitLine ==
    /\ mode = "line"
    /\ \E n \in 1 .. MaxPoints : heap = (1 :> WebglLine(n))
    /\ nextId = 2
    /\ gl = <<>>
    /\ wglp = <<>>
    /\ g = <<>>
    /\ sched = <<>>
    /\ op = NoOp

LineFrame == UNCHANGED <<mode, nextId, gl, wglp, g, sched>>

Call_setX ==
    /\ mode = "line"
    /\ \E index \in Indices, x \in Values :
         /\ heap' = [heap EXCEPT ![1] = setX(@, index, Num(x))]
         /\ op' = [OpRec("setX") EXCEPT !.line = 1, !.index = index, !.val = x]
    /\ LineFrame

Call_setY ==
    /\ mode = "line"
    /\ \E index \in Indices, y \in Values :
         /\ heap' = [heap EXCEPT ![1] = setY(@, index, Num(y))]
         /\ op' = [OpRec("setY") EXCEPT !.line = 1, !.index = index, !.val = y]
    /\ LineFrame

Call_getX ==
    /\ mode = "line"
    /\ \E index \in Indices :
         op' = [OpRec("getX") EXCEPT !.line = 1, !.index = index,
                                     !.ret = getX(heap[1], index)]
    /\ UNCHANGED heap
    /\ LineFrame

Call_getY ==
    /\ mode = "line"
    /\ \E index \in Indices :
         op' = [OpRec("getY") EXCEPT !.line = 1, !.index = index,
                                     !.ret = getY(heap[1], index)]
    /\ UNCHANGED heap
    /\ LineFrame

Call_lineSpaceX ==
    /\ mode = "line"
    /\ \E start \in Values, stepSize \in Values :
         /\ heap' = [heap EXCEPT ![1] = lineSpaceX(@, start, stepSize)]
         /\ op' = [OpRec("lineSpaceX") EXCEPT !.line = 1, !.index = start,
                                              !.val = stepSize]
    /\ LineFrame

Call_constY ==
    /\ mode = "line"
    /\ \E c \in Values :
         /\ heap' = [heap EXCEPT ![1] = constY(@, c)]
         /\ op' = [OpRec("constY") EXCEPT !.line = 1, !.val = c]
    /\ LineFrame

Call_shiftAdd ==
    /\ mode = "line"
    /\ \E data \in SeqsUpTo(Values, MaxPoints + 1) :
         /\ heap' = [heap EXCEPT ![1] = shiftAdd(@, data)]
         /\ op' = [OpRec("shiftAdd") EXCEPT !.line = 1, !.data = data]
    /\ LineFrame

NextLine ==
    \/ Call_setX
    \/ Call_setY
    \/ Call_getX
    \/ Call_getY
    \/ Call_lineSpaceX
    \/ Call_constY
    \/ Call_shiftAdd


---------------------------------------------------------------------------
(* Program "walk": the random-walk demo, src/script.js.                    *)
(* Its lines are lineGroup objects of the older webgl-plot package; their  *)
(* xy is a num x 2 array view over a Float32Array, so xy.get(i, j) and     *)
(* xy.set(i, j, v) read and write offset 2 * i + j of it.                  *)
(* Samples are counted in steps of 0.005, the size of one walk step.       *)

\* bounds standing for the demo's ranges
\* largest canvas width in device pixels (num)
MaxNum == 2
\* top of slider_new_data's range, 100 in the source
MaxNewNum == 2
\* the walk is followed while its samples stay within one step of 0
WalkRange == {-1, 0, 1}
\* how many times init() is re-run
MaxInits == 1

\* program constants
\* slider_fps range: min
MinFps == 1
\* slider_fps range: max
MaxFps == 10

\* line_num_list, cut to its first entries
line_num_list == <<1, 2>>

ndGet(xy, i, j) == TypedGet(xy, 2 * i + j)
ndSet(xy, i, j, r) == TypedSet(xy, 2 * i + j, r)

\* NaN-propagating addition of Float32 values
FAdd(a, d) == IF a = NaN THEN NaN ELSE a + d

\* 0.01 * (Math.round(Math.random()) - 0.5), in steps, for a rounded draw b
WalkStep(b) == 2 * b - 1

\* random_walk(init, walk_size) for the draws bits[1..walk_size]
RECURSIVE random_walkFrom(_, _, _, _)
random_walkFrom(y, i, walk_size, bits) ==
    IF i < walk_size
    THEN random_walkFrom(
            TypedSet(y, i, Num(FAdd(ToFloat(TypedGet(y, i - 1)), WalkStep(bits[i + 1])))),
            i + 1, walk_size, bits)
    ELSE y

random_walk(init, walk_size, bits) ==
    LET y0 == Zeros(walk_size)
        y1 == TypedSet(y0, 0, Num(FAdd(ToFloat(init), WalkStep(bits[1]))))
    IN  random_walkFrom(y1, 1, walk_size, bits)

\* A producer's working state: the heap and the accessor calls made so far
Acc(st, id, i) == [st EXCEPT !.acc = @ \cup {<<id, i>>}]

\* lines.forEach(line => line.xy.set(i, 1, line.xy.get(i + shift_size, 1)))
RECURSIVE plotShiftLines(_, _, _, _, _)
plotShiftLines(st, lines, k, i, shift_size) ==
    IF k <= Len(lines)
    THEN LET id == lines[k]
             v  == ndGet(st.heap[id].xy, i + shift_size, 1)
             s1 == Acc(Acc(st, id, i + shift_size), id, i)
         IN  plotShiftLines(
                [s1 EXCEPT !.heap[id].xy = ndSet(@, i, 1, v)],
                lines, k + 1, i, shift_size)
    ELSE st

\* for (var i = 0; i < num - shift_size; i++) _loop_1(i)
RECURSIVE plotShift(_, _, _, _, _)
plotShift(st, lines, i, num, shift_size) ==
    IF i < num - shift_size
    THEN plotShift(plotShiftLines(st, lines, 1, i, shift_size),
                   lines, i + 1, num, shift_size)
    ELSE st

\* for (var i = 0; i < shift_size; i++) line.xy.set(i + num - shift_size, 1, y[i])
RECURSIVE plotAppendLine(_, _, _, _, _, _)
plotAppendLine(st, id, y, i, num, shift_size) ==
    IF i < shift_size
    THEN plotAppendLine(
            [Acc(st, id, i + num - shift_size) EXCEPT
                !.heap[id].xy = ndSet(@, i + num - shift_size, 1, TypedGet(y, i))],
            id, y, i + 1, num, shift_size)
    ELSE st

\* the second lines.forEach of plot; rnd[k] holds the draws of line k's walk
RECURSIVE plotAppend(_, _, _, _, _, _)
plotAppend(st, lines, k, num, shift_size, rnd) ==
    IF k <= Len(lines)
    THEN LET id == lines[k]
             y  == random_walk(ndGet(st.heap[id].xy, num - 1, 1), shift_size, rnd[k])
         IN  plotAppend(plotAppendLine(Acc(st, id, num - 1), id, y, 0, num, shift_size),
                        lines, k + 1, num, shift_size, rnd)
    ELSE st

\* plot(shift_size)
plot(hp, lines, num, shift_size, rnd) ==
    plotAppend(plotShift([heap |-> hp, acc |-> {}], lines, 0, num, shift_size),
               lines, 1, num, shift_size, rnd)

\* lines.push(new lineGroup(line_colors[i], num)) for i < line_num
RECURSIVE walkNewLines(_, _, _, _, _)
walkNewLines(hp, lines, id, i, gg) ==
    IF i < gg.line_num
    THEN walkNewLines((id :> WebglLine(gg.num)) @@ hp, Append(lines, id), id + 1, i + 1, gg)
    ELSE [heap |-> hp, lines |-> lines]

\* lines.forEach(line => wglp.add_line(line))
RECURSIVE walkAddLines(_, _, _)
walkAddLines(r, lines, k) ==
    IF k <= Len(lines)
    THEN walkAddLines(addLine(r.ctx, r.heap, r.plot, lines[k]), lines, k + 1)
    ELSE r

\* 2 * i / num - 1, in units of 1 / num
WalkX(i, num) == 2 * i - num

\* lines.forEach(line => { line.xy.set(i, 0, 2*i/num - 1); line.xy.set(i, 1, 0) })
RECURSIVE walkFillLines(_, _, _, _, _)
walkFillLines(hp, lines, k, i, num) ==
    IF k <= Len(lines)
    THEN walkFillLines(
            [hp EXCEPT ![lines[k]].xy =
                ndSet(ndSet(@, i, 0, Num(WalkX(i, num))), i, 1, Num(0))],
            lines, k + 1, i, num)
    ELSE hp

\* for (var i = 0; i < num; i++) _loop_2(i)
RECURSIVE walkFill(_, _, _, _)
walkFill(hp, lines, i, num) ==
    IF i < num
    THEN walkFill(walkFillLines(hp, lines, 1, i, num), lines, i + 1, num)
    ELSE hp

\* init(): the old lines and the old plot become unreachable
Walk_init(ctx, gg, id) ==
    LET made  == walkNewLines(NoHeap, <<>>, id, 0, gg)
        built == WebGLPlot(ctx, 1, gg.width, gg.height)
        added == walkAddLines([ctx |-> built.ctx, heap |-> made.heap, plot |-> built.plot],
                              made.lines, 1)
    IN  [ ctx   |-> added.ctx,
          heap  |-> walkFill(added.heap, made.lines, 0, gg.num),
          plot  |-> added.plot,
          lines |-> made.lines,
          next  |-> id + gg.line_num ]

\* fps_counter++; if (fps_counter >= fps_divder) fps_counter = 0
fpsAdvanceNoReset(counter, divder) == counter + 1

fpsAdvance(counter, divder) ==
    IF counter + 1 >= divder THEN 0 ELSE counter + 1

\* the sliders' "update" events have fired once when bound, the load has run
\* init() and requested the first animation frame
InitWalkOn(widths) ==
    /\ mode = "walk"
    /\ \E n \in widths :
         LET gg == [ num |-> n, width |-> n, height |-> 1,
                     line_num |-> line_num_list[1], new_num |-> 1,
                     fps_divder |-> MinFps, fps_counter |-> 0,
                     lines |-> <<>>, inits |-> 0,
                     sinceRender |-> 0, held |-> FALSE ]
             r == Walk_init(NewContext, gg, 1)
         IN  /\ heap = r.heap
             /\ nextId = r.next
             /\ gl = <<r.ctx>>
             /\ wglp = <<r.plot>>
             /\ g = [gg EXCEPT !.lines = r.lines]
    /\ sched = [raf |-> <<1>>, timer |-> FALSE, media |-> 0]
    /\ op = NoOp

InWalkRange(hp) ==
    \A id \in DOMAIN hp : \A p \in DOMAIN hp[id].xy :
        p % 2 = 0 => (hp[id].xy[p] = NaN \/ hp[id].xy[p] \in WalkRange)

\* window.requestAnimationFrame's callback
Walk_new_frame ==
    /\ mode = "walk"
    /\ sched.raf[1] > 0
    /\ \E rnd \in [1 .. Len(g.lines) -> [1 .. g.new_num -> {0, 1}]] :
         LET render == g.fps_counter = 0
             st  == IF render
                    THEN plot(heap, g.lines, g.num, g.new_num, rnd)
                    ELSE [heap |-> heap, acc |-> {}]
             ctx == IF render THEN update(gl[1], st.heap, wglp[1]) ELSE gl[1]
         IN  /\ render \/ rnd = [k \in 1 .. Len(g.lines) |-> [i \in 1 .. g.new_num |-> 0]]
             /\ InWalkRange(st.heap)
             /\ heap' = st.heap
             /\ gl' = [gl EXCEPT ![1] = Taken(ctx)]
             /\ g' = [g EXCEPT
                        !.fps_counter = fpsAdvance(g.fps_counter, g.fps_divder),
                        !.sinceRender = IF render THEN 1 ELSE @ + 1,
                        !.held = IF render THEN TRUE ELSE @]
             /\ op' = [OpRec("new_frame") EXCEPT
                        !.data = IF render THEN rnd ELSE <<>>,
                        !.val = g.new_num,
                        !.acc = st.acc,
                        !.updates = ctx.calls,
                        !.plots = IF render THEN 1 ELSE 0,
                        !.draws = ctx.draws,
                        !.lines = wglp[1].lines]
    /\ sched' = [sched EXCEPT !.raf = requestAnimationFrame(frameFired(@, 1), 1)]
    /\ UNCHANGED <<mode, nextId, wglp>>

\* slider_lines "update": line_num = line_num_list[value]
Walk_slider_lines_update ==
    /\ mode = "walk"
    /\ \E v \in 0 .. Len(line_num_list) - 1 :
         /\ g' = [g EXCEPT !.line_num = line_num_list[v + 1]]
         /\ op' = [OpRec("slider_lines_update") EXCEPT !.val = v]
    /\ UNCHANGED <<mode, heap, nextId, gl, wglp, sched>>

\* slider_lines "set": init()
Walk_slider_lines_set ==
    /\ mode = "walk"
    /\ g.inits < MaxInits
    /\ LET r == Walk_init(gl[1], g, nextId)
       IN  /\ heap' = r.heap
           /\ nextId' = r.next
           /\ gl' = [gl EXCEPT ![1] = r.ctx]
           /\ wglp' = [wglp EXCEPT ![1] = r.plot]
           /\ g' = [g EXCEPT !.lines = r.lines, !.inits = @ + 1]
    /\ op' = OpRec("slider_lines_set")
    /\ UNCHANGED <<mode, sched>>

\* slider_new_data "update"
Walk_slider_new_data_update ==
    /\ mode = "walk"
    /\ \E v \in 1 .. MaxNewNum :
         /\ g' = [g EXCEPT !.new_num = v]
         /\ op' = [OpRec("slider_new_data_update") EXCEPT !.val = v]
    /\ UNCHANGED <<mode, heap, nextId, gl, wglp, sched>>

\* slider_fps "update"
Walk_slider_fps_update ==
    /\ mode = "walk"
    /\ \E v \in MinFps .. MaxFps :
         /\ g' = [g EXCEPT !.fps_divder = v, !.held = FALSE]
         /\ op' = [OpRec("slider_fps_update") EXCEPT !.val = v]
    /\ UNCHANGED <<mode, heap, nextId, gl, wglp, sched>>

\* window "resize": clearTimeout(resizeId); resizeId = setTimeout(doneResizing, 500)
Walk_resize ==
    /\ mode = "walk"
    /\ sched' = [sched EXCEPT !.timer = TRUE]
    /\ op' = OpRec("resize")
    /\ UNCHANGED <<mode, heap, nextId, gl, wglp, g>>

\* doneResizing(): wglp.viewport(0, 0, canv.width, canv.height)
Walk_doneResizing ==
    /\ mode = "walk"
    /\ sched.timer
    /\ LET r == viewport(gl[1], heap, wglp[1], 0, 0, g.width, g.height)
       IN  /\ gl' = [gl EXCEPT ![1] = r.ctx]
           /\ heap' = r.heap
           /\ wglp' = [wglp EXCEPT ![1] = r.plot]
    /\ sched' = [sched EXCEPT !.timer = FALSE]
    /\ op' = OpRec("doneResizing")
    /\ UNCHANGED <<mode, nextId, g>>

\* the demo driven by its data sliders
NextWalkData ==
    \/ Walk_new_frame
    \/ Walk_slider_lines_update
    \/ Walk_slider_lines_set
    \/ Walk_slider_new_data_update

\* the demo driven by its frame-rate slider, re-initialisation and resizing
NextWalkFrames ==
    \/ Walk_new_frame
    \/ Walk_slider_fps_update
    \/ Walk_slider_lines_set
    \/ Walk_resize
    \/ Walk_doneResizing

\* any canvas width
InitWalk == InitWalkOn(1 .. MaxNum)

\* the narrowest canvas: the frame logic reads no sample
InitWalkNarrow == InitWalkOn({1})


---------------------------------------------------------------------------
(* Program "plot": a client of one WebGLPlot that builds lines, fills      *)
(* them, sets their visible and loop properties, attaches and removes      *)
(* them, draws and changes the viewport.                                   *)

\* lines the client constructs; it attaches each of them at most once
MaxLines == 2

\* the canvas widths the client uses
Sizes == {1, 2}

InitPlot ==
    /\ mode = "plot"
    /\ heap = NoHeap
    /\ nextId = 1
    /\ \E w \in {1} :
         LET built == WebGLPlot(NewContext, 1, w, 1)
         IN  /\ gl = <<built.ctx>>
             /\ wglp = <<built.plot>>
    /\ g = <<>>
    /\ sched = <<>>
    /\ op = NoOp

\* new WebglLine(color, numPoints)
Plot_newLine ==
    /\ mode = "plot"
    /\ nextId <= MaxLines
    /\ \E n \in {MaxPoints} :
         /\ heap' = (nextId :> WebglLine(n)) @@ heap
         /\ op' = OpRec("new WebglLine")
    /\ nextId' = nextId + 1
    /\ UNCHANGED <<mode, gl, wglp, g, sched>>

\* line.constY(c)
Plot_constY ==
    /\ mode = "plot"
    /\ \E id \in DOMAIN heap, c \in Values :
         /\ heap' = [heap EXCEPT ![id] = constY(@, c)]
         /\ op' = OpRec("constY")
    /\ UNCHANGED <<mode, nextId, gl, wglp, g, sched>>

\* line.visible = b
Plot_setVisible ==
    /\ mode = "plot"
    /\ \E id \in DOMAIN heap, b \in BOOLEAN :
         /\ heap' = [heap EXCEPT ![id].visible = b]
         /\ op' = OpRec("visible")
    /\ UNCHANGED <<mode, nextId, gl, wglp, g, sched>>

\* line.loop = b
Plot_setLoop ==
    /\ mode = "plot"
    /\ \E id \in DOMAIN heap, b \in BOOLEAN :
         /\ heap' = [heap EXCEPT ![id].loop = b]
         /\ op' = OpRec("loop")
    /\ UNCHANGED <<mode, nextId, gl, wglp, g, sched>>

Call_addLine ==
    /\ mode = "plot"
    /\ \E id \in DOMAIN heap :
         LET r == addLine(gl[1], heap, wglp[1], id)
         IN  /\ heap[id].vbuffer = 0
             /\ gl' = [gl EXCEPT ![1] = r.ctx]
             /\ heap' = r.heap
             /\ wglp' = [wglp EXCEPT ![1] = r.plot]
             /\ op' = [OpRec("addLine") EXCEPT !.line = id, !.lines = wglp[1].lines]
    /\ UNCHANGED <<mode, nextId, g, sched>>

\* the lines of hp that are still attached or were never attached: the
\* client lets go of a line once it is removed from the plot
HeldLines(hp, p) ==
    [ id \in { i \in DOMAIN hp : hp[i].vbuffer = 0 \/ i \in Range(p.lines) }
        |-> hp[id] ]

Call_popLine ==
    /\ mode = "plot"
    /\ wglp' = [wglp EXCEPT ![1] = popLine(@)]
    /\ heap' = HeldLines(heap, popLine(wglp[1]))
    /\ op' = [OpRec("popLine") EXCEPT !.lines = wglp[1].lines]
    /\ UNCHANGED <<mode, nextId, gl, g, sched>>

Call_removeAllLines ==
    /\ mode = "plot"
    /\ wglp' = [wglp EXCEPT ![1] = removeAllLines(@)]
    /\ heap' = HeldLines(heap, removeAllLines(wglp[1]))
    /\ op' = [OpRec("removeAllLines") EXCEPT !.lines = wglp[1].lines]
    /\ UNCHANGED <<mode, nextId, gl, g, sched>>

Call_update ==
    /\ mode = "plot"
    /\ LET ctx == update(gl[1], heap, wglp[1])
       IN  /\ gl' = [gl EXCEPT ![1] = Taken(ctx)]
           /\ op' = [OpRec("update") EXCEPT !.updates = ctx.calls, !.draws = ctx.draws,
                                            !.lines = wglp[1].lines]
    /\ UNCHANGED <<mode, heap, nextId, wglp, g, sched>>

Call_viewport ==
    /\ mode = "plot"
    /\ \E w \in Sizes :
         LET r == viewport(gl[1], heap, wglp[1], 0, 0, w, 1)
         IN  /\ gl' = [gl EXCEPT ![1] = r.ctx]
             /\ heap' = r.heap
             /\ wglp' = [wglp EXCEPT ![1] = r.plot]
             /\ op' = [OpRec("viewport") EXCEPT !.lines = wglp[1].lines]
    /\ UNCHANGED <<mode, nextId, g, sched>>

NextPlot ==
    \/ Plot_newLine
    \/ Plot_constY
    \/ Plot_setVisible
    \/ Plot_setLoop
    \/ Call_addLine
    \/ Call_popLine
    \/ Call_removeAllLines
    \/ Call_update
    \/ Call_viewport


---------------------------------------------------------------------------
(* Program "mic": the microphone demo, vanilla/dist/microphone.js.         *)
(* The sizes are scaled down, keeping fftSize / 2 > numX as in the source  *)
(* (8192 > 1024).  X values are kept in units of 1 / numX; the value       *)
(* Math.log10(i) / 2 is kept as the code LogBase + i.                      *)

\* numX, 1024 in the source
NumX == 2
\* fftSize, Math.pow(2, 14) in the source
FftSize == 8
\* the length of maxA, 60 * 2 in the source
MaxALen == 2

LogBase == 0 - 100
Log10Half(i) == LogBase + i

\* analyser.frequencyBinCount is half the FFT size
frequencyBinCount == FftSize \div 2

\* what the analyser hands out in one frame: the same sample in every bin,
\* or a single peak in bin 0
AnalyserFrames ==
    { [i \in 1 .. frequencyBinCount |-> v] : v \in Values }
        \cup { [i \in 1 .. frequencyBinCount |-> IF i = 1 THEN 1 ELSE 0] }

\* Math.max(...array): -Infinity never arises, the arrays are not empty;
\* NaN when an element is undefined or NaN
RECURSIVE MaxFrom(_, _, _)
MaxFrom(arr, i, m) ==
    IF i > Len(arr) THEN m
    ELSE IF arr[i] = NaN \/ m = NaN THEN NaN
    ELSE MaxFrom(arr, i + 1, IF arr[i] > m THEN arr[i] ELSE m)

MathMax(arr) == MaxFrom(arr, 2, arr[1])

\* a / b for samples a <= b in Values: 0 / 0 and anything with NaN are NaN
FDiv(a, b) ==
    IF a = NaN \/ b = NaN THEN NaN
    ELSE IF b = 0 THEN NaN
    ELSE a \div b

\* update(): the first loop, over dataArray
RECURSIVE micFreqLoop(_, _, _, _, _)
micFreqLoop(st, lineFreq, dataArray, maxF, i) ==
    IF i < Len(dataArray)
    THEN LET s1 == Acc(Acc(st, lineFreq, i), lineFreq, i)
             l1 == setY(s1.heap[lineFreq], i, Num(FDiv(dataArray[i + 1], maxF)))
             l2 == setX(l1, i, Num(Log10Half(i)))
         IN  micFreqLoop([s1 EXCEPT !.heap[lineFreq] = l2],
                         lineFreq, dataArray, maxF, i + 1)
    ELSE st

\* update(): the second loop, over buffer
RECURSIVE micTimeLoop(_, _, _, _, _)
micTimeLoop(st, lineTime, buffer, maxAcurrent, i) ==
    IF i < Len(buffer)
    THEN LET s1 == Acc(st, lineTime, i)
         IN  micTimeLoop(
                [s1 EXCEPT !.heap[lineTime] =
                    setY(@, i, Num(FDiv(buffer[i + 1], maxAcurrent)))],
                lineTime, buffer, maxAcurrent, i + 1)
    ELSE st

\* maxA.shift(); maxA.push(Math.max(...buffer))
maxAPush(maxA, buffer) == Append(Tail(maxA), MathMax(buffer))

\* update() for the analyser's frequency data and time-domain data
Mic_update(hp, gg, dataArray, buffer) ==
    LET s1   == micFreqLoop([heap |-> hp, acc |-> {}], gg.lineFreq, dataArray,
                            MathMax(dataArray), 0)
        maxA == maxAPush(gg.maxA, buffer)
    IN  [ st   |-> micTimeLoop(s1, gg.lineTime, buffer, MathMax(maxA), 0),
          maxA |-> maxA ]

\* init(): getUserMedia's promise is left to the host; the old lines and the
\* old plot become unreachable
Mic_init(ctx, id, width) ==
    LET lineTime == id
        lineFreq == id + 1
        h0 == (lineTime :> WebglLine(NumX)) @@ (lineFreq :> WebglLine(FftSize \div 2))
        built == WebGLPlot(ctx, 1, width, 1)
        h1 == [h0 EXCEPT ![lineTime] = lineSpaceX(@, -NumX, 2),
                         ![lineFreq] = lineSpaceX(@, -NumX, 2)]
        a1 == addLine(built.ctx, h1, built.plot, lineTime)
        a2 == addLine(a1.ctx, a1.heap, a1.plot, lineFreq)
    IN  [ ctx |-> a2.ctx, heap |-> a2.heap, plot |-> a2.plot,
          lineTime |-> lineTime, lineFreq |-> lineFreq, next |-> id + 2 ]

\* the script has run: init(), the resize listener, the first frame request.
\* maxA is new Array(120): every element undefined, NaN to Math.max
InitMic ==
    /\ mode = "mic"
    /\ \E w \in Sizes :
         LET r == Mic_init(NewContext, 1, w)
         IN  /\ heap = r.heap
             /\ nextId = r.next
             /\ gl = <<r.ctx>>
             /\ wglp = <<r.plot>>
             /\ g = [ analyser |-> FALSE, lineTime |-> r.lineTime,
                      lineFreq |-> r.lineFreq,
                      maxA |-> [i \in 1 .. MaxALen |-> NaN], inits |-> 0 ]
    /\ sched = [raf |-> <<1>>, timer |-> FALSE, media |-> 1]
    /\ op = NoOp

\* newFrame's test: analyser != undefined
analyserAlways(gg) == TRUE

analyserDefined(gg) == gg.analyser

\* the frame callback
Mic_newFrame ==
    /\ mode = "mic"
    /\ sched.raf[1] > 0
    /\ \E dataArray \in AnalyserFrames, buffer \in AnalyserFrames :
         LET produce == analyserDefined(g)
             r   == IF produce
                    THEN Mic_update(heap, g, dataArray, buffer)
                    ELSE [st |-> [heap |-> heap, acc |-> {}], maxA |-> g.maxA]
             ctx == update(gl[1], r.st.heap, wglp[1])
         IN  /\ produce \/ (dataArray = buffer /\ dataArray[1] = 0)
             /\ heap' = r.st.heap
             /\ g' = [g EXCEPT !.maxA = r.maxA]
             /\ gl' = [gl EXCEPT ![1] = Taken(ctx)]
             /\ op' = [OpRec("newFrame") EXCEPT
                         !.acc = r.st.acc,
                         !.updates = ctx.calls,
                         !.plots = IF produce THEN 1 ELSE 0,
                         !.draws = ctx.draws,
                         !.lines = wglp[1].lines]
    /\ sched' = [sched EXCEPT !.raf = requestAnimationFrame(frameFired(@, 1), 1)]
    /\ UNCHANGED <<mode, nextId, wglp>>

\* getUserMedia's promise is fulfilled: handleSuccess(stream)
Mic_handleSuccess ==
    /\ mode = "mic"
    /\ sched.media > 0
    /\ g' = [g EXCEPT !.analyser = TRUE]
    /\ sched' = [sched EXCEPT !.media = @ - 1]
    /\ op' = OpRec("handleSuccess")
    /\ UNCHANGED <<mode, heap, nextId, gl, wglp>>

\* getUserMedia's promise is rejected: then() was given no rejection handler
Mic_getUserMediaRejected ==
    /\ mode = "mic"
    /\ sched.media > 0
    /\ sched' = [sched EXCEPT !.media = @ - 1]
    /\ op' = OpRec("getUserMedia rejected")
    /\ UNCHANGED <<mode, heap, nextId, gl, wglp, g>>

\* window "resize"
Mic_resize ==
    /\ mode = "mic"
    /\ sched' = [sched EXCEPT !.timer = TRUE]
    /\ op' = OpRec("resize")
    /\ UNCHANGED <<mode, heap, nextId, gl, wglp, g>>

\* doneResizing(): init()
Mic_doneResizing ==
    /\ mode = "mic"
    /\ sched.timer
    /\ g.inits < MaxInits
    /\ \E w \in Sizes :
         LET r == Mic_init(gl[1], nextId, w)
         IN  /\ heap' = r.heap
             /\ nextId' = r.next
             /\ gl' = [gl EXCEPT ![1] = r.ctx]
             /\ wglp' = [wglp EXCEPT ![1] = r.plot]
             /\ g' = [g EXCEPT !.lineTime = r.lineTime, !.lineFreq = r.lineFreq,
                               !.inits = @ + 1]
             /\ op' = [OpRec("doneResizing") EXCEPT !.val = w, !.lines = wglp[1].lines]
    /\ sched' = [sched EXCEPT !.timer = FALSE, !.media = @ + 1]
    /\ UNCHANGED mode

NextMic ==
    \/ Mic_newFrame
    \/ Mic_handleSuccess
    \/ Mic_getUserMediaRejected
    \/ Mic_resize
    \/ Mic_doneResizing


---------------------------------------------------------------------------
(* Program "worker": offScreen/rollup/src/offScreen-worker.ts.  Every      *)
(* "message" event starts an instance of its own: a canvas, a line, a      *)
(* plot and a frame loop.                                                  *)

\* "message" events the worker receives
MaxMsgs == 1

\* the listener is registered, nothing has arrived
InitWorker ==
    /\ mode = "worker"
    /\ heap = NoHeap
    /\ nextId = 1
    /\ gl = <<>>
    /\ wglp = <<>>
    /\ g = [line |-> <<>>]
    /\ sched = [raf |-> <<>>, timer |-> FALSE, media |-> 0]
    /\ op = NoOp

\* the "message" listener, for a canvas of width numX
Worker_message ==
    /\ mode = "worker"
    /\ Len(wglp) < MaxMsgs
    /\ \E numX \in Sizes :
         LET k     == Len(wglp) + 1
             built == WebGLPlot(NewContext, k, numX, 1)
             h1    == (nextId :> lineSpaceX(WebglLine(numX), -numX, 2)) @@ heap
             a1    == addLine(built.ctx, h1, built.plot, nextId)
         IN  /\ heap' = a1.heap
             /\ gl' = Append(gl, a1.ctx)
             /\ wglp' = Append(wglp, a1.plot)
             /\ g' = [g EXCEPT !.line = Append(@, nextId)]
             /\ sched' = [sched EXCEPT !.raf = requestAnimationFrame(Append(@, 0), k)]
             /\ op' = [OpRec("message") EXCEPT !.inst = k, !.val = numX]
    /\ nextId' = nextId + 1
    /\ UNCHANGED mode

\* update(): for (let i = 0; i < line.numPoints; i++) line.setY(i, ...);
\* ys[i + 1] is the sample computed for i
RECURSIVE workerUpdateFrom(_, _, _, _)
workerUpdateFrom(st, id, ys, i) ==
    IF i < st.heap[id].numPoints
    THEN workerUpdateFrom(
            [Acc(st, id, i) EXCEPT !.heap[id] = setY(@, i, Num(ys[i + 1]))],
            id, ys, i + 1)
    ELSE st

Worker_update(hp, id, ys) == workerUpdateFrom([heap |-> hp, acc |-> {}], id, ys, 0)

\* the frame callback of instance k
Worker_newFrame ==
    /\ mode = "worker"
    /\ \E k \in 1 .. Len(wglp) :
         /\ sched.raf[k] > 0
         /\ \E ys \in [1 .. heap[g.line[k]].numPoints -> Values] :
              LET st  == Worker_update(heap, g.line[k], ys)
                  ctx == update(gl[k], st.heap, wglp[k])
              IN  /\ heap' = st.heap
                  /\ gl' = [gl EXCEPT ![k] = Taken(ctx)]
                  /\ op' = [OpRec("newFrame") EXCEPT
                              !.inst = k, !.data = ys, !.acc = st.acc,
                              !.updates = ctx.calls, !.plots = 1, !.draws = ctx.draws,
                              !.lines = wglp[k].lines]
         /\ sched' = [sched EXCEPT !.raf = requestAnimationFrame(frameFired(@, k), k)]
    /\ UNCHANGED <<mode, nextId, wglp, g>>

NextWorker ==
    \/ Worker_message
    \/ Worker_newFrame

---------------------------------------------------------------------------
(* Specifications *)

\* the line class under a client, and the random-walk demo under its data
\* sliders
InitData == InitLine \/ InitWalk
NextData == NextLine \/ NextWalkData
SpecLine == InitData /\ [][NextData]_vars

\* the plot class under a client
SpecPlot == InitPlot /\ [][NextPlot]_vars

\* what handles a resize: the plot class under a client, the microphone demo
\* and the random-walk demo
InitResize == InitPlot \/ InitMic \/ InitWalkNarrow
NextResize == NextPlot \/ NextMic \/ NextWalkFrames
SpecResize == InitResize /\ [][NextResize]_vars

\* the three demos under their frames, timers, sliders and messages
Init == InitMic \/ InitWalkNarrow \/ InitWorker
Next == NextMic \/ NextWalkFrames \/ NextWorker
Spec == Init /\ [][Next]_vars

---------------------------------------------------------------------------
(* Properties *)

IsNewFrame(o) == o.name \in {"newFrame", "new_frame"}

\* the y values of `new` are those of `old` moved k = Len(data) places to the
\* front and followed by data; the x values and the size are those of `old`
ShiftAppended(old, new, data) ==
    LET n == old.numPoints
        k == Len(data)
    IN  /\ new.numPoints = n
        /\ Len(new.xy) = Len(old.xy)
        /\ \A i \in 0 .. n - k - 1 : getY(new, i) = getY(old, i + k)
        /\ \A j \in 0 .. k - 1 : getY(new, n - k + j) = Num(data[j + 1])
        /\ \A i \in 0 .. n - 1 : getX(new, i) = getX(old, i)

\* C1: after shiftAdd(data) with Len(data) <= numPoints, and for each line
\* after plot(shift_size) with shift_size <= num, the y values are the old
\* ones shifted by the number of new values and followed by the new values
\* (for plot: the walk generated from the line's last sample), and every x
\* value is as before.
C1_ShiftAppend ==
    [][ /\ (op'.name = "shiftAdd" /\ Len(op'.data) <= heap[1].numPoints)
            => ShiftAppended(heap[1], heap'[1], op'.data)
        /\ (op'.name = "new_frame" /\ op'.plots = 1 /\ op'.val <= g.num)
            => \A k \in 1 .. Len(g.lines) :
                 ShiftAppended(heap[g.lines[k]], heap'[g.lines[k]],
                               random_walk(getY(heap[g.lines[k]], g.num - 1),
                                           op'.val, op'.data[k]))
      ]_vars

\* a line of three points was shifted by one sample: <<_, 1, 0>> became <<1, 0, 1>>
C1_Witness ==
    /\ mode = "line"
    /\ op.name = "shiftAdd"
    /\ op.data = <<1>>
    /\ heap[1].numPoints = 3
    /\ getY(heap[1], 0) = Num(1)
    /\ getY(heap[1], 1) = Num(0)
    /\ getY(heap[1], 2) = Num(1)
    /\ getX(heap[1], 2) = Num(2)

\* C2: shiftAdd with more values than numPoints fails with InvalidArgument
\* and leaves the line's buffer as it was.
C2_TooManyValuesFail ==
    [][ (op'.name = "shiftAdd" /\ Len(op'.data) > heap[1].numPoints)
            => (op'.outcome = "InvalidArgument" /\ heap'[1].xy = heap[1].xy)
      ]_vars

\* C3: setX, setY, getX and getY with an index outside 0..numPoints-1 fail
\* with IndexOutOfRange, and the buffer is as it was.
C3_OutOfRangeFails ==
    [][ ( /\ op'.name \in {"setX", "setY", "getX", "getY"}
          /\ ~(op'.index >= 0 /\ op'.index < heap[1].numPoints) )
            => (op'.outcome = "IndexOutOfRange" /\ heap'[1].xy = heap[1].xy)
      ]_vars

\* C4: every index a data producer gives to a point accessor of a line is
\* within 0..numPoints-1 of that line.
C4_ProducerIndicesInRange ==
    \A a \in op.acc : a[2] >= 0 /\ a[2] < heap[a[1]].numPoints

\* the lines of `lines` that are visible, in order
VisibleOf(hp, lines) == SelectSeq(lines, LAMBDA id : hp[id].visible)

\* one draw per visible line, in order, of the line's contents
DrawsOf(hp, lines) ==
    LET vis == VisibleOf(hp, lines)
    IN  [ i \in 1 .. Len(vis) |->
            [ mode  |-> IF hp[vis[i]].loop THEN LINE_LOOP ELSE LINE_STRIP,
              count |-> hp[vis[i]].webglNumPoints,
              data  |-> hp[vis[i]].xy ] ]

\* C5: one update() makes exactly one draw call per attached visible line,
\* in attachment order, each of that line's current contents, LINE_LOOP iff
\* line.loop; the last upload is that of the last visible line, and with no
\* visible line there is no draw.
C5_UpdateDrawsVisible ==
    (mode = "plot" /\ op.name = "update") =>
        /\ op.updates = 1
        /\ op.draws = DrawsOf(heap, op.lines)
        /\ VisibleOf(heap, op.lines) # <<>> =>
              LET vis == VisibleOf(heap, op.lines)
              IN  gl[1].store[gl[1].bound] = heap[vis[Len(vis)]].xy

\* update() drew the second of two attached lines only, as a loop, with
\* contents set after the line was attached
C5_Witness ==
    /\ mode = "plot"
    /\ op.name = "update"
    /\ Len(op.lines) = 2
    /\ ~heap[op.lines[1]].visible
    /\ heap[op.lines[2]].visible
    /\ heap[op.lines[2]].loop
    /\ Len(op.draws) = 1
    /\ op.draws[1].mode = LINE_LOOP
    /\ getY(heap[op.lines[2]], 0) = Num(1)

\* C6: removeAllLines leaves no line attached and an update() with no line
\* attached draws nothing; popLine removes the last attached line and leaves
\* the others in their order.
C6_Detach ==
    mode = "plot" =>
        /\ op.name = "removeAllLines" => wglp[1].lines = <<>>
        /\ (op.name = "update" /\ op.lines = <<>>) => op.draws = <<>>
        /\ (op.name = "popLine" /\ op.lines # <<>>) =>
              wglp[1].lines = SubSeq(op.lines, 1, Len(op.lines) - 1)
        /\ (op.name = "popLine" /\ op.lines = <<>>) => wglp[1].lines = <<>>

\* two lines were attached, none is attached now and update() has run
C6_Witness ==
    /\ mode = "plot"
    /\ op.name = "update"
    /\ op.lines = <<>>
    /\ op.draws = <<>>
    /\ gl[1].nextBuf = 3

\* C7: the live buffers of the context are exactly the buffers of the
\* attached lines.
C7_LiveBuffersAreAttached ==
    mode = "plot" =>
        gl[1].live = { heap[id].vbuffer : id \in Range(wglp[1].lines) }

\* the attached lines and their contents are as before the step
LinesKept ==
    /\ wglp'[1].lines = wglp[1].lines
    /\ \A id \in Range(wglp[1].lines) :
         id \in DOMAIN heap' /\ heap'[id].xy = heap[id].xy

\* C8 as stated: a viewport call and every demo's doneResizing handler leave
\* the attached lines and their contents as they were.
C8_ResizeKeepsLines ==
    [][ op'.name \in {"viewport", "doneResizing"} => LinesKept ]_vars

\* C8 amended: a viewport call and the random-walk demo's doneResizing leave
\* the attached lines and their contents as they were; the microphone demo's
\* doneResizing attaches two newly built lines (y all 0, x laid out by
\* lineSpaceX) to a new plot.
C8_ViewportKeepsLines ==
    [][ /\ (op'.name = "viewport" \/ (op'.name = "doneResizing" /\ mode = "walk"))
            => LinesKept
        /\ (op'.name = "doneResizing" /\ mode = "mic")
            => /\ Len(wglp'[1].lines) = 2
               /\ \A id \in Range(wglp'[1].lines) :
                    /\ id \notin DOMAIN heap
                    /\ \A i \in 0 .. heap'[id].numPoints - 1 :
                         /\ getY(heap'[id], i) = Num(0)
                         /\ getX(heap'[id], i) = Num(2 * i - NumX)
      ]_vars

\* the random-walk demo handled a resize while its line held a walked sample
C8_Witness ==
    /\ mode = "walk"
    /\ op.name = "doneResizing"
    /\ Len(wglp[1].lines) = 1
    /\ getY(heap[wglp[1].lines[1]], 0) = Num(1)

\* C9 as stated: every frame callback calls the plot's update() exactly once
\* and at most one frame callback is pending.
C9_OneUpdatePerTick ==
    /\ IsNewFrame(op) => op.updates = 1
    /\ \A k \in DOMAIN sched.raf : sched.raf[k] <= 1
    /\ Cardinality({ k \in DOMAIN sched.raf : sched.raf[k] > 0 }) <= 1

\* C9 amended: every frame loop has exactly one callback pending; a frame of
\* the microphone demo or of the worker calls update() exactly once; a frame
\* of the random-walk demo calls it once when fps_counter is 0 and not at all
\* otherwise.
C9_UpdatePerTick ==
    /\ [](\A k \in DOMAIN sched.raf : sched.raf[k] = 1)
    /\ [][ IsNewFrame(op') =>
             op'.updates = IF mode = "walk" /\ g.fps_counter # 0 THEN 0 ELSE 1
         ]_vars

\* a frame of the random-walk demo passed without update()
C9_Witness ==
    /\ mode = "walk"
    /\ op.name = "new_frame"
    /\ op.updates = 0
    /\ g.fps_divder = 2
    /\ sched.raf = <<1>>

\* C10: after every new_frame 0 <= fps_counter < fps_divder; while fps_divder
\* has stood at d since the last rendering frame, fps_counter is the number
\* of frames since then modulo d, so the next rendering frame is the d-th;
\* whatever the slider does, at most MaxFps frames pass from one rendering
\* frame to the next.
C10_FrameSkip ==
    mode = "walk" =>
        /\ op.name = "new_frame" =>
              (g.fps_counter >= 0 /\ g.fps_counter < g.fps_divder)
        /\ op.name = "new_frame" => op.plots = op.updates
        /\ g.held =>
              /\ g.sinceRender >= 1
              /\ g.sinceRender <= g.fps_divder
              /\ g.fps_counter = g.sinceRender % g.fps_divder
        /\ g.sinceRender <= MaxFps
        /\ (g.sinceRender = MaxFps) => g.fps_counter = 0

\* with fps_divder at 3 the third frame since the last rendering one has run
\* without rendering and the next one will render
C10_Witness ==
    /\ mode = "walk"
    /\ op.name = "new_frame"
    /\ op.plots = 0
    /\ g.held
    /\ g.fps_divder = 3
    /\ g.sinceRender = 3
    /\ g.fps_counter = 0

\* C11: a frame of the microphone demo that starts before handleSuccess has
\* assigned analyser does not run the producer update(); it still calls
\* wglp.update() once and leaves one frame callback requested.  analyser,
\* once assigned, stays assigned, and every frame that starts with it
\* assigned runs the producer once and then wglp.update(), which draws the
\* lines as the producer left them.
C11_ProducerAfterAnalyser ==
    /\ [][ (mode = "mic" /\ g.analyser) => g'.analyser ]_vars
    /\ [][ (mode = "mic" /\ op'.name = "newFrame") =>
             /\ op'.plots = IF g.analyser THEN 1 ELSE 0
             /\ ~g.analyser => (op'.acc = {} /\ heap' = heap)
             /\ op'.updates = 1
             /\ op'.draws = DrawsOf(heap', op'.lines)
             /\ sched'.raf = <<1>>
         ]_vars

\* after a resize re-ran init() and while its permission request is still
\* open, a frame ran the producer and drew both new lines
C11_Witness ==
    /\ mode = "mic"
    /\ op.name = "newFrame"
    /\ op.plots = 1
    /\ g.analyser
    /\ g.inits = 1
    /\ sched.media = 1
    /\ Len(op.draws) = 2
    /\ op.acc # {}

=============================================================================
